---- MODULE Spec2Model ----
(***************************************************************************)
(* A state-machine model of js/three.js, the single script of the 3D house *)
(* viewer: the environment/model load chain, the click (pick and recolor)  *)
(* handler, the Escape key handler, the info panel's Close button, the     *)
(* animation frame and the 300 ms hide timers, and the resize handler.     *)
(*                                                                         *)
(* The browser runs one handler at a time, to completion, so every handler *)
(* is one action.  Materials are identified by their name.  The scratch    *)
(* objects `mouse` and `raycaster` are overwritten at the start of every   *)
(* click and never read across events; the result of the ray cast is the   *)
(* click's input `hit` (0: the ray intersects nothing).                    *)
(***************************************************************************)
EXTENDS Integers, Sequences, FiniteSets, TLC

(* ------------------------------ bounds -------------------------------- *)
\* longest material array of a mesh of the loaded file
MaxMats == 2
\* most frame callbacks, and most hide timers, pending at one time
MaxPending == 2

(* ------------------------- program constants -------------------------- *)
roofMaterialName == "genting.004"
roofColor == "#5CA9E9"
\* the delay of the hide timer of the keydown handler
HideDelay == 300

\* the own keys of otherMaterialColors and of materialDescriptions
TableKeys == {"Glass.009", "Material.137", "Material.136"}
\* a property every object literal inherits from Object.prototype
\* (the others, toString, valueOf, hasOwnProperty ..., behave alike)
PrototypeKeys == {"constructor"}
Undefined == "undefined"
ObjectFunction == "function Object() { [native code] }"

\* otherMaterialColors[name]: a property read of an object literal
otherMaterialColors(name) ==
    CASE name = "Glass.009"    -> "#87CEEB"
      [] name = "Material.137" -> "#FFD700"
      [] name = "Material.136" -> "#228B22"
      [] name \in PrototypeKeys -> ObjectFunction
      [] OTHER -> Undefined

\* materialDescriptions[name]
materialDescriptions(name) ==
    CASE name = "Glass.009"    -> "Title of obj: WINDOW"
      [] name = "Material.137" -> "Title of obj: ROOF"
      [] name = "Material.136" -> "Title of obj: GARDEN"
      [] name \in PrototypeKeys -> ObjectFunction
      [] OTHER -> Undefined

\* JavaScript truthiness of the values the two tables can yield
Truthy(v) == v # Undefined /\ v # ""

ColorStrings == {roofColor, "#87CEEB", "#FFD700", "#228B22"}
\* the color a material has in the file
FileColor == "#ffffff"

\* THREE.Color.set(value): a style string is parsed, any other non-color,
\* non-number value leaves the color as it was
ColorSet(old, value) == IF value \in ColorStrings THEN value ELSE old

(* ------------------------------ inputs -------------------------------- *)
\* material names a file may use: the four the script knows, one it does
\* not know, and one that is an inherited property of the tables
MaterialNames ==
    {roofMaterialName} \cup TableKeys \cup PrototypeKeys \cup {"Wall"}

\* the viewport sizes (innerWidth, innerHeight) the window takes
Sizes == {<<4, 2>>, <<3, 3>>}
Keys == {"Escape", "Enter"}

(* ------------------------------- state -------------------------------- *)
VARIABLES
    gltf,             \* the content of ./model/nhouse2.glb: its meshes, in traverse order
    envStatus,        \* the RGBELoader request: "pending", "loaded", "failed"
    environment,      \* scene.environment is set
    modelStatus,      \* the GLTFLoader request: "idle", "pending", "loaded", "failed"
    loadsStarted,     \* how many times loadModel() was called
    sceneModel,       \* the model was added to the scene
    controlsTarget,   \* controls.target: "origin" or the model's "center"
    clickableMeshes,  \* the array clickableMeshes (mesh indices, in push order)
    color,            \* material name -> color, for the materials of the scene
    overlay,          \* #overlayContainer: [exists, display, opacity]
    materialInfoBox,  \* #materialInfo: [text, display]
    frameCallbacks,   \* pending requestAnimationFrame reveal callbacks
    timers,           \* pending setTimeout hide callbacks (their delays, oldest first)
    winSize,          \* <<window.innerWidth, window.innerHeight>>
    cameraAspect,     \* camera.aspect as a reduced fraction <<num, den>>
    rendererSize,     \* the size of the drawing surface
    error,            \* a handler threw (a property read of a null overlay)
    ev,               \* the event handled last: [type, hit, key]
    lastToggle,       \* the last user request on the roof overlay: "none", "roof", "escape"
    flexSet           \* overlay.style.display was set to 'flex' at some time

vars == <<gltf, envStatus, environment, modelStatus, loadsStarted, sceneModel,
          controlsTarget, clickableMeshes, color, overlay, materialInfoBox,
          frameCallbacks, timers, winSize, cameraAspect, rendererSize, error,
          ev, lastToggle, flexSet>>

loadVars == <<envStatus, environment, modelStatus, loadsStarted, sceneModel,
              controlsTarget, clickableMeshes>>
viewVars == <<winSize, cameraAspect, rendererSize>>
uiVars == <<color, overlay, materialInfoBox, frameCallbacks, timers, error,
            lastToggle, flexSet>>

(* --------------------------- the loaded file -------------------------- *)
RECURSIVE SeqsUpTo(_, _)
\* the non-empty sequences over S of length at most n
SeqsUpTo(S, n) ==
    IF n = 0 THEN {}
    ELSE UNION {[1..n -> S], SeqsUpTo(S, n - 1)}

\* The files: mesh 1 has a material array, mesh 2 is a child of mesh 1 with
\* a single material the script does not know (parent 0 is the model root).
Gltfs ==
    { << [material |-> ms, isArray |-> TRUE, parent |-> 0],
         [material |-> "Wall", isArray |-> FALSE, parent |-> 1] >> :
      ms \in SeqsUpTo(MaterialNames, MaxMats) }

\* Array.isArray(child.material) ? child.material : [child.material]
Materials(mesh) ==
    IF mesh.isArray THEN mesh.material ELSE <<mesh.material>>

Range(f) == {f[i] : i \in DOMAIN f}

\* the material names of a file
NamesOf(file) == UNION {Range(Materials(file[i])) : i \in DOMAIN file}

\* the test of the traverse callback on one material
Matches(name) == name = roofMaterialName \/ Truthy(otherMaterialColors(name))

RECURSIVE PushMatching(_, _, _)
\* materials.forEach of the traverse callback: one push per matching material
PushMatching(mats, child, list) ==
    IF mats = <<>> THEN list
    ELSE PushMatching(Tail(mats), child,
                      IF Matches(Head(mats)) THEN Append(list, child) ELSE list)

RECURSIVE Traverse(_, _, _)
\* model.traverse: the meshes from index i on, appended to list
Traverse(file, i, list) ==
    IF i > Len(file) THEN list
    ELSE Traverse(file, i + 1, PushMatching(Materials(file[i]), i, list))

RECURSIVE IsInSubtree(_, _, _)
\* mesh i is one of the meshes of `roots` or a descendant of one
IsInSubtree(file, i, roots) ==
    IF i = 0 THEN FALSE
    ELSE i \in roots \/ IsInSubtree(file, file[i].parent, roots)

\* a ray cast against every mesh of the file instead of the clickable list
IntersectAll(file, list) == DOMAIN file

\* raycaster.intersectObjects(clickableMeshes, true): the meshes the ray can
\* report, the listed ones and (recursive = true) their descendants
IntersectObjects(file, list) ==
    {i \in DOMAIN file : IsInSubtree(file, i, Range(list))}

(* ------------------------------ handlers ------------------------------ *)
\* The part of the state the click and keydown handlers work on.
Ui == [color |-> color, overlay |-> overlay, info |-> materialInfoBox,
       frames |-> frameCallbacks, timers |-> timers, error |-> error,
       flexSet |-> flexSet]

\* a roof branch that shows the overlay at full opacity in the click itself
RoofBranchOneStep(name, s) ==
    LET s1 == [s EXCEPT !.color[name] = ColorSet(@, roofColor)]
    IN  IF s.overlay.exists
        THEN [s1 EXCEPT !.overlay.display = "flex",
                        !.overlay.opacity = "1",
                        !.flexSet = TRUE]
        ELSE s1

\* a roof branch without the presence check of the overlay
RoofBranchNoGuard(name, s) ==
    [s EXCEPT !.color[name] = ColorSet(@, roofColor),
              !.overlay.display = "flex",
              !.frames = @ + 1,
              !.flexSet = TRUE]

\* the roof branch of the click handler's materials.forEach callback
RoofBranch(name, s) ==
    LET s1 == [s EXCEPT !.color[name] = ColorSet(@, roofColor)]
    IN  IF s.overlay.exists
        THEN [s1 EXCEPT !.overlay.display = "flex",
                        !.frames = @ + 1,
                        !.flexSet = TRUE]
        ELSE s1

\* the table branch of the click handler's materials.forEach callback
TableBranch(name, s) ==
    [s EXCEPT !.color[name] = ColorSet(@, otherMaterialColors(name)),
              !.info = [text |-> IF Truthy(materialDescriptions(name))
                                 THEN materialDescriptions(name)
                                 ELSE "Material clicked.",
                        display |-> "block"]]

\* a callback that takes every material other than the roof's for a table entry
VisitMaterialNoTableTest(name, s) ==
    IF name = roofMaterialName THEN RoofBranch(name, s)
    ELSE TableBranch(name, s)

\* the callback of the click handler's materials.forEach
VisitMaterial(name, s) ==
    IF name = roofMaterialName THEN RoofBranch(name, s)
    ELSE IF Truthy(otherMaterialColors(name)) THEN TableBranch(name, s)
    ELSE s

\* a loop that stops after the first material
ForEachFirstOnly(mats, s) ==
    IF mats = <<>> THEN s ELSE VisitMaterial(Head(mats), s)

RECURSIVE ForEachMaterial(_, _)
\* materials.forEach((mat) => ...), in array order
ForEachMaterial(mats, s) ==
    IF mats = <<>> THEN s
    ELSE ForEachMaterial(Tail(mats), VisitMaterial(Head(mats), s))

\* the click handler, given the nearest intersection (0: intersects is empty)
ClickHandler(hit, s) ==
    IF hit # 0 THEN ForEachMaterial(Materials(gltf[hit]), s) ELSE s

\* a keydown handler that does not look at the key
KeydownHandlerAnyKey(key, s) ==
    LET s1 == IF s.overlay.exists /\ s.overlay.display = "flex"
              THEN [s EXCEPT !.overlay.opacity = "0",
                             !.timers = Append(@, HideDelay)]
              ELSE s
    IN  IF s1.info.display = "block"
        THEN [s1 EXCEPT !.info.display = "none"]
        ELSE s1

\* the keydown handler
KeydownHandler(key, s) ==
    IF key = "Escape"
    THEN LET s1 == IF s.overlay.exists /\ s.overlay.display = "flex"
                   THEN [s EXCEPT !.overlay.opacity = "0",
                                  !.timers = Append(@, HideDelay)]
                   ELSE s
         IN  IF s1.info.display = "block"
             THEN [s1 EXCEPT !.info.display = "none"]
             ELSE s1
    ELSE s

\* the reveal callback the click handler hands to requestAnimationFrame
RevealCallback(s) ==
    IF s.overlay.exists
    THEN [s EXCEPT !.overlay.opacity = "1"]
    ELSE [s EXCEPT !.error = TRUE]

\* the hide callback the keydown handler hands to setTimeout
HideCallback(s) ==
    IF s.overlay.exists
    THEN [s EXCEPT !.overlay.display = "none"]
    ELSE [s EXCEPT !.error = TRUE]

\* the inline onclick of the info panel's Close button
CloseHandler(s) == [s EXCEPT !.info.display = "none"]

RECURSIVE Gcd(_, _)
Gcd(a, b) == IF b = 0 THEN a ELSE Gcd(b, a % b)

\* window.innerWidth / window.innerHeight, as a reduced fraction
Ratio(size) ==
    <<size[1] \div Gcd(size[1], size[2]), size[2] \div Gcd(size[1], size[2])>>

\* a resize handler that takes the aspect from the drawing surface before
\* it resizes it
ResizeHandlerStale(size, v) == [aspect |-> Ratio(v.size), size |-> size]

\* the resize handler, on [aspect, size]
ResizeHandler(size, v) == [aspect |-> Ratio(size), size |-> size]

HasRoof(hit) == hit # 0 /\ roofMaterialName \in Range(Materials(gltf[hit]))

\* the state a handler leaves is written back
Commit(s) ==
    /\ color' = s.color
    /\ overlay' = s.overlay
    /\ materialInfoBox' = s.info
    /\ frameCallbacks' = s.frames
    /\ timers' = s.timers
    /\ error' = s.error
    /\ flexSet' = s.flexSet
    /\ s.frames <= MaxPending
    /\ Len(s.timers) <= MaxPending

Event(type, hit, key) == [type |-> type, hit |-> hit, key |-> key]

(* ------------------------------- actions ------------------------------ *)
\* a start-up that sends both requests at once
StartLoadsParallel ==
    /\ envStatus = "pending"
    /\ modelStatus = "pending"
    /\ loadsStarted = 1

\* the requests the script sends at start-up: the environment's alone
StartLoads ==
    /\ envStatus = "pending"
    /\ modelStatus = "idle"
    /\ loadsStarted = 0

Init ==
    /\ gltf \in Gltfs
    /\ StartLoads
    /\ environment = FALSE
    /\ sceneModel = FALSE
    /\ controlsTarget = "origin"
    /\ clickableMeshes = <<>>
    /\ color = [n \in {} |-> FileColor]
    /\ overlay \in {[exists |-> TRUE, display |-> "none", opacity |-> "0"],
                    [exists |-> FALSE, display |-> "", opacity |-> ""]}
    /\ materialInfoBox = [text |-> "Material info will appear here.",
                          display |-> ""]
    /\ frameCallbacks = 0
    /\ timers = <<>>
    /\ winSize \in Sizes
    /\ cameraAspect = Ratio(winSize)
    /\ rendererSize = winSize
    /\ error = FALSE
    /\ ev = Event("init", 0, "")
    /\ lastToggle = "none"
    /\ flexSet = FALSE

\* loadModel(): the request for the model is sent
loadModel ==
    /\ modelStatus' = "pending"
    /\ loadsStarted' = loadsStarted + 1

\* the success callback of RGBELoader().load
EnvLoaded ==
    /\ envStatus = "pending"
    /\ envStatus' = "loaded"
    /\ environment' = TRUE
    /\ loadModel
    /\ ev' = Event("envLoaded", 0, "")
    /\ UNCHANGED <<gltf, sceneModel, controlsTarget, clickableMeshes>>
    /\ UNCHANGED <<viewVars, uiVars>>

\* the environment request fails: no error callback was given
EnvFailed ==
    /\ envStatus = "pending"
    /\ envStatus' = "failed"
    /\ ev' = Event("envFailed", 0, "")
    /\ UNCHANGED <<gltf, environment, modelStatus, loadsStarted, sceneModel,
                   controlsTarget, clickableMeshes>>
    /\ UNCHANGED <<viewVars, uiVars>>

\* the success callback of loader.load
ModelLoaded ==
    /\ modelStatus = "pending"
    /\ modelStatus' = "loaded"
    /\ clickableMeshes' = Traverse(gltf, 1, clickableMeshes)
    /\ color' = [n \in NamesOf(gltf) |-> FileColor]
    /\ sceneModel' = TRUE
    /\ controlsTarget' = "center"
    /\ ev' = Event("modelLoaded", 0, "")
    /\ UNCHANGED <<gltf, envStatus, environment, loadsStarted>>
    /\ UNCHANGED <<overlay, materialInfoBox, frameCallbacks, timers, error,
                   lastToggle, flexSet>>
    /\ UNCHANGED viewVars

\* the model request fails: no error callback was given
ModelFailed ==
    /\ modelStatus = "pending"
    /\ modelStatus' = "failed"
    /\ ev' = Event("modelFailed", 0, "")
    /\ UNCHANGED <<gltf, envStatus, environment, loadsStarted, sceneModel,
                   controlsTarget, clickableMeshes>>
    /\ UNCHANGED <<viewVars, uiVars>>

\* a click on the page
Click(hit) ==
    /\ hit \in IntersectObjects(gltf, clickableMeshes) \cup {0}
    /\ Commit(ClickHandler(hit, Ui))
    /\ lastToggle' = IF HasRoof(hit) THEN "roof" ELSE lastToggle
    /\ ev' = Event("click", hit, "")
    /\ UNCHANGED <<gltf, loadVars, viewVars>>

\* a click on the info panel's Close button: its inline handler, then the
\* window's click handler as the event bubbles
CloseClick(hit) ==
    /\ materialInfoBox.display # "none"
    /\ hit \in IntersectObjects(gltf, clickableMeshes) \cup {0}
    /\ Commit(ClickHandler(hit, CloseHandler(Ui)))
    /\ lastToggle' = IF HasRoof(hit) THEN "roof" ELSE lastToggle
    /\ ev' = Event("close", hit, "")
    /\ UNCHANGED <<gltf, loadVars, viewVars>>

\* a key press
Keydown(key) ==
    /\ Commit(KeydownHandler(key, Ui))
    /\ lastToggle' = IF key = "Escape" THEN "escape" ELSE lastToggle
    /\ ev' = Event("keydown", 0, key)
    /\ UNCHANGED <<gltf, loadVars, viewVars>>

\* an animation frame: animate() (no mixer exists; controls.update and
\* renderer.render draw the scene) and every pending reveal callback
Frame ==
    /\ Commit(IF frameCallbacks > 0
              THEN [RevealCallback(Ui) EXCEPT !.frames = 0]
              ELSE Ui)
    /\ ev' = Event("frame", 0, "")
    /\ UNCHANGED <<gltf, loadVars, viewVars, lastToggle>>

\* the oldest hide timer fires
Timeout ==
    /\ timers # <<>>
    /\ Commit([HideCallback(Ui) EXCEPT !.timers = Tail(@)])
    /\ ev' = Event("timeout", 0, "")
    /\ UNCHANGED <<gltf, loadVars, viewVars, lastToggle>>

\* the window is resized
Resize(size) ==
    /\ winSize' = size
    /\ LET v == ResizeHandler(size, [aspect |-> cameraAspect, size |-> rendererSize])
       IN  /\ cameraAspect' = v.aspect
           /\ rendererSize' = v.size
    /\ ev' = Event("resize", 0, "")
    /\ UNCHANGED <<gltf, loadVars, uiVars>>

Next ==
    \/ EnvLoaded
    \/ EnvFailed
    \/ ModelLoaded
    \/ ModelFailed
    \/ \E hit \in 0..Len(gltf) : Click(hit)
    \/ \E hit \in 0..Len(gltf) : CloseClick(hit)
    \/ \E key \in Keys : Keydown(key)
    \/ Frame
    \/ Timeout
    \/ \E size \in Sizes : Resize(size)

Spec == Init /\ [][Next]_vars

\* The pages with the overlay element and a roof material in the file, with
\* the scheduling the browser gives: animate() asks for the next frame in
\* every frame, and the frame callbacks and the timers that are due are run.
FairInit == Init /\ overlay.exists /\ roofMaterialName \in NamesOf(gltf)

FairSpec == FairInit /\ [][Next]_vars /\ WF_vars(Frame) /\ WF_vars(Timeout)

Hits == 0..Len(gltf)
ClickStep(hit) == Click(hit) \/ CloseClick(hit)
IsClick == ev.type \in {"click", "close"}


(* ------------------------------- claims ------------------------------- *)
\* the state a click or key handler may change, but for the history variables
shown == <<color, overlay, materialInfoBox, frameCallbacks, timers>>

\* C1: a click whose ray hits no mesh of the clickable set (also when the set
\* is empty) changes no material color, leaves the overlay and the info panel
\* as they were and schedules no frame callback or timer.
C1_MissChangesNothing ==
    [][\A hit \in Hits :
          (Click(hit) /\ hit \notin Range(clickableMeshes))
              => UNCHANGED shown]_vars

\* a click missed the clickable meshes of a loaded model some of whose
\* materials had been recolored before
C1_Witness ==
    /\ ev.type = "click"
    /\ ev.hit \notin Range(clickableMeshes)
    /\ clickableMeshes # <<>>
    /\ \E n \in DOMAIN color : color[n] # FileColor
    /\ materialInfoBox.display = "block"

\* C2: a click on a mesh with the roof material, the overlay present, sets
\* the roof material's color and the overlay's display in that step; the
\* opacity becomes '1' later, in a frame, and never before display was set
\* to 'flex'; whatever else happens, the opacity '1' is reached.
C2_RoofReveal ==
    /\ [][\A hit \in Hits :
             (ClickStep(hit) /\ HasRoof(hit) /\ overlay.exists)
                 => /\ color'[roofMaterialName] = roofColor
                    /\ overlay'.display = "flex"
                    /\ frameCallbacks' > frameCallbacks]_vars
    /\ [][(overlay.opacity # "1" /\ overlay'.opacity = "1")
             => ev'.type = "frame" /\ frameCallbacks > 0 /\ flexSet]_vars
    /\ (IsClick /\ HasRoof(ev.hit) /\ overlay.exists) ~> (overlay.opacity = "1")

\* the frame after a roof click has run: the overlay is displayed and opaque
C2_Witness ==
    /\ ev.type = "frame"
    /\ lastToggle = "roof"
    /\ overlay.display = "flex"
    /\ overlay.opacity = "1"
    /\ roofMaterialName \in DOMAIN color
    /\ color[roofMaterialName] = roofColor

\* the last material of mats that the click handler takes for a table entry
\* ("" if there is none)
RECURSIVE LastTableMaterial(_)
LastTableMaterial(mats) ==
    IF mats = <<>> THEN ""
    ELSE LET last == mats[Len(mats)]
         IN  IF last # roofMaterialName /\ Truthy(otherMaterialColors(last))
             THEN last
             ELSE LastTableMaterial(SubSeq(mats, 1, Len(mats) - 1))

HitMaterial(name) ==
    IsClick /\ ev.hit # 0 /\ name \in Range(Materials(gltf[ev.hit]))

\* C3 as stated: after a click on a mesh that has Material.137, whatever its
\* other materials and their order, that material is '#FFD700', the info
\* text is 'Title of obj: ROOF' and the info panel's display is 'block'.
C3_AsStated ==
    HitMaterial("Material.137")
        => /\ color["Material.137"] = "#FFD700"
           /\ materialInfoBox.text = "Title of obj: ROOF"
           /\ materialInfoBox.display = "block"

\* C3 amended: after such a click the material is '#FFD700' and the panel's
\* display is 'block'; the text is 'Title of obj: ROOF' exactly when
\* Material.137 is the last material of the mesh, in array order, that the
\* handler takes for a table entry (otherwise a later one's text is shown).
C3_LastTableMaterialWins ==
    HitMaterial("Material.137")
        => /\ color["Material.137"] = "#FFD700"
           /\ materialInfoBox.display = "block"
           /\ (materialInfoBox.text = "Title of obj: ROOF"
                 <=> LastTableMaterial(Materials(gltf[ev.hit])) = "Material.137")

\* a click on a mesh with Material.137 and, before it in the array, another
\* table material: the text shown is the roof's
C3_Witness ==
    /\ HitMaterial("Material.137")
    /\ Materials(gltf[ev.hit]) = <<"Glass.009", "Material.137">>
    /\ color["Material.137"] = "#FFD700"
    /\ materialInfoBox.text = "Title of obj: ROOF"
    /\ materialInfoBox.display = "block"

Displayed == overlay.exists /\ overlay.display = "flex"

\* C4: Escape with the overlay displayed sets its opacity to '0' in that step
\* and schedules one 300 ms timer, whose firing sets display to 'none'; the
\* same step hides the info panel if it was 'block'.  Another key changes
\* nothing; Escape with nothing to hide changes nothing and schedules nothing.
C4_Escape ==
    /\ [][Keydown("Escape")
             => /\ Displayed
                    => /\ overlay'.opacity = "0"
                       /\ overlay'.display = "flex"
                       /\ timers' = Append(timers, 300)
                /\ ~Displayed => overlay' = overlay /\ timers' = timers
                /\ materialInfoBox.display = "block"
                    => materialInfoBox'.display = "none"
                /\ materialInfoBox.display # "block"
                    => materialInfoBox' = materialInfoBox
                /\ materialInfoBox'.text = materialInfoBox.text
                /\ UNCHANGED <<color, frameCallbacks>>]_vars
    /\ [][(\E key \in Keys \ {"Escape"} : Keydown(key))
             => UNCHANGED shown]_vars
    /\ [][Timeout
             => /\ overlay'.display = "none"
                /\ overlay'.opacity = overlay.opacity
                /\ timers' = Tail(timers)]_vars

\* Escape has just been handled with the overlay displayed: faded, still
\* displayed, one timer pending, the info panel hidden
C4_Witness ==
    /\ ev.type = "keydown"
    /\ ev.key = "Escape"
    /\ overlay.display = "flex"
    /\ overlay.opacity = "0"
    /\ timers = <<300>>
    /\ materialInfoBox.display = "none"
    /\ materialInfoBox.text # "Material info will appear here."

\* C5: once every pending frame callback and timer has run, the overlay is
\* in the state the last user action asked for: displayed and opaque after
\* a roof click, hidden and transparent after Escape.
C5_LastActionWins ==
    (overlay.exists /\ frameCallbacks = 0 /\ timers = <<>>)
        => /\ lastToggle = "roof"
               => overlay.display = "flex" /\ overlay.opacity = "1"
           /\ lastToggle = "escape"
               => overlay.display = "none" /\ overlay.opacity = "0"

\* C6: after the model-load callback a mesh is in the clickable set iff one of
\* its materials is named 'genting.004' or is a key of the color table (so
\* the membership is the same in every later state).
C6_ClickableIffKnownName ==
    modelStatus = "loaded"
        => \A i \in DOMAIN gltf :
              i \in Range(clickableMeshes)
                  <=> \E n \in Range(Materials(gltf[i])) :
                         n = roofMaterialName \/ n \in TableKeys

\* C7: before the model-load callback the clickable set is empty, so no click
\* has changed a material color or shown the overlay or the info panel.
C7_NothingBeforeLoad ==
    modelStatus # "loaded"
        => /\ clickableMeshes = <<>>
           /\ \A n \in DOMAIN color : color[n] = FileColor
           /\ overlay.display # "flex"
           /\ overlay.opacity # "1"
           /\ materialInfoBox.display # "block"
           /\ frameCallbacks = 0
           /\ timers = <<>>

\* a click was handled while the model request was in flight
C7_Witness ==
    /\ ev.type = "click"
    /\ envStatus = "loaded"
    /\ modelStatus = "pending"

\* C8: the model is requested only in the environment's success callback:
\* the model is in the scene only with the environment set, the two requests
\* are never in flight together, loadModel runs at most once, and never if
\* the environment request did not succeed.
C8_SerialLoads ==
    /\ sceneModel => environment
    /\ modelStatus # "idle" => environment
    /\ ~(envStatus = "pending" /\ modelStatus = "pending")
    /\ loadsStarted <= 1
    /\ envStatus # "loaded" => modelStatus = "idle" /\ loadsStarted = 0

\* the model was added to the scene
C8_Witness ==
    /\ sceneModel
    /\ environment
    /\ envStatus = "loaded"
    /\ modelStatus = "loaded"
    /\ loadsStarted = 1

\* C9: without the overlay element no handler reads the missing element; a
\* roof click still colors the roof material and schedules no frame callback,
\* Escape still hides the info panel and schedules no timer.
C9_NoOverlay ==
    ~overlay.exists
        => /\ ~error
           /\ frameCallbacks = 0
           /\ timers = <<>>
           /\ HitMaterial(roofMaterialName)
                  => color[roofMaterialName] = roofColor
           /\ (ev.type = "keydown" /\ ev.key = "Escape")
                  => materialInfoBox.display # "block"

\* without the overlay, Escape hid an info panel that a click on a mesh with
\* the roof material and a table material had shown
C9_Witness ==
    /\ ~overlay.exists
    /\ ev.type = "keydown"
    /\ ev.key = "Escape"
    /\ lastToggle = "escape"
    /\ materialInfoBox.display = "none"
    /\ roofMaterialName \in DOMAIN color
    /\ color[roofMaterialName] = roofColor

\* C10: after a resize to (W,H) the camera's aspect is W/H and the drawing
\* surface is (W,H); a second resize to the same size leaves that state as
\* it is; a resize changes no color, overlay, info panel or clickable mesh.
C10_Resize ==
    /\ [](ev.type = "resize"
            => /\ cameraAspect[1] * winSize[2] = cameraAspect[2] * winSize[1]
               /\ rendererSize = winSize)
    /\ [](\A size \in Sizes :
            LET once == ResizeHandler(size, [aspect |-> cameraAspect,
                                             size |-> rendererSize])
            IN  ResizeHandler(size, once) = once)
    /\ [][(\E size \in Sizes : Resize(size))
             => UNCHANGED <<shown, clickableMeshes>>]_vars

\* a resize to the square viewport was handled after a click changed a color
C10_Witness ==
    /\ ev.type = "resize"
    /\ winSize = <<3, 3>>
    /\ cameraAspect = <<1, 1>>
    /\ rendererSize = <<3, 3>>
    /\ \E n \in DOMAIN color : color[n] # FileColor

====
